---- MODULE Spec2Model ----
(***************************************************************************)
(* Model of the Gmail MCP server's two stateful pieces:                    *)
(*   - processBatches (tool-handlers): chunked apply with per-item retry   *)
(*   - authenticate   (index.ts): OAuth2 callback listener and code flow   *)
(***************************************************************************)
EXTENDS Integers, Sequences, FiniteSets, TLC

\* ------------------------------------------------------------------ bounds
MaxLen == 4         \* longest enumerated input sequence of processBatches
MaxBatchSize == 3   \* largest enumerated batchSize
MaxRequests == 2    \* most HTTP requests the callback listener receives in a run

\* values the enumerated inputs are built from
ItemSet == {"a", "b", "c"}
ExampleItems == <<"a", "b", "c", "d", "e">>

VARIABLES
    \* ---- processBatches(items, batchSize, processFn)
    items,       \* T[]: the input sequence
    batchSize,   \* number: the chunk size
    i,           \* loop index of the for loop (0-based)
    batch,       \* the current items.slice(i, i + batchSize)
    j,           \* position of the for..of loop over batch (1-based)
    successes,   \* U[]
    failures,    \* { item, error }[]
    calls,       \* every invocation of processFn so far, with its outcome
    bpc,         \* where processBatches stands
    \* ---- authenticate() as run by main() in auth mode
    argvCallback, \* process.argv[3]: the requested callback URL, or NoArg
    portOwner,    \* who holds each local port: "free", "other" or "server"
    host,         \* hostname of the callback
    pathName,     \* path of the callback
    preferredPort,\* port of the requested callback
    finalPort,    \* what the bind promise resolved with
    server,       \* the http.Server: [state, port]
    oauth2Client, \* module-level OAuth2Client: [redirectUri, credentials]
    authUrl,      \* the authorization URL presented to the user
    promise,      \* the promise authenticate returns: pending/resolved/rejected
    rejection,    \* the error authenticate rejected with
    handlers,     \* one entry per request the 'request' handler was run for
    credFile,     \* content of CREDENTIALS_PATH
    credFileBefore, \* content of CREDENTIALS_PATH when the program started
    observed,     \* what another process found when it read CREDENTIALS_PATH
    apc           \* where authenticate / main stand

batchVars == <<items, batchSize, i, batch, j, successes, failures, calls, bpc>>
authVars == <<argvCallback, portOwner, host, pathName, preferredPort, finalPort,
              server, oauth2Client, authUrl, promise, rejection, handlers,
              credFile, credFileBefore, observed, apc>>
vars == <<batchVars, authVars>>

\* ------------------------------------------------------------ pure helpers
Min(a, b) == IF a < b THEN a ELSE b

RECURSIVE SeqsUpTo(_, _)
SeqsUpTo(S, n) ==
    IF n = 0 THEN {<<>>}
    ELSE LET shorter == SeqsUpTo(S, n - 1)
         IN  shorter \cup {Append(s, x) : s \in {t \in shorter : Len(t) = n - 1}, x \in S}

\* slice with the end index taken inclusively
SliceInclusive(s, from, to) == SubSeq(s, from + 1, Min(to + 1, Len(s)))

\* Array.prototype.slice(from, to) for 0 <= from <= to, on a 1-based sequence
Slice(s, from, to) == SubSeq(s, from + 1, Min(to, Len(s)))

\* what a processFn that honours its contract resolves with: one result per item
ResultOf(x) == [id |-> x]
OpResults(b) == [k \in 1..Len(b) |-> ResultOf(b[k])]

\* successes.push(results): the array pushed as one element
PushResultsNested(succ, results) == Append(succ, results)

\* successes.push(...results)
PushResults(succ, results) == succ \o results

\* failures.push({ item, error })
PushFailure(fail, item, error) == Append(fail, [item |-> item, error |-> error])

\* the loop advances by one item instead of one chunk
NextIndexByOne(idx, size) == idx + 1

\* the index advance of the for loop
NextIndex(idx, size) == idx + size

\* a thrown Error is identified by the invocation that threw it
Invoke(cs, b, kind) == Append(cs, [batch |-> b, kind |-> kind, out |-> "pending"])
Settle(cs, out) == [cs EXCEPT ![Len(cs)].out = out]

\* ------------------------------------------------ authenticate: helpers
DefaultPort == 3000
DefaultHost == "localhost"
DefaultPath == <<"/", "oauth2callback">>

\* ports of the machine; listen(0) is served from the ephemeral ones
InputPorts == {3000, 8080}
EphemeralPorts == {49152, 49153}
Ports == InputPorts \cup EphemeralPorts

\* process.argv[3]: absent, a URL (hostname, port, pathname as new URL() reports
\* them; port <<>> when the URL names none) or text new URL() rejects
NoArg == [kind |-> "none", hostname |-> "", port |-> <<>>, pathname |-> <<>>]
BadArg == [kind |-> "invalid", hostname |-> "", port |-> <<>>, pathname |-> <<>>]
UrlArg(h, p, path) == [kind |-> "url", hostname |-> h, port |-> p, pathname |-> path]
CallbackArgs ==
    { NoArg,
      BadArg,
      UrlArg("localhost", <<>>, <<"/">>),
      UrlArg("127.0.0.1", <<8080>>, <<"/", "cb">>) }

\* a redirect URI, `http://${host}:${port}${path}`, kept by its three parts
Uri(h, p, path) == [host |-> h, port |-> p, path |-> path]
NoUri == Uri("", <<>>, <<>>)

\* the callback loadCredentials() built the first client with
RequestedUri(arg) ==
    IF arg.kind = "url" THEN Uri(arg.hostname, arg.port, arg.pathname)
    ELSE IF arg.kind = "invalid" THEN Uri("?", <<>>, <<>>)
    ELSE Uri(DefaultHost, <<DefaultPort>>, DefaultPath)

\* host / pathName / preferredPort as parsed from the requested callback
ParsedHost(arg) == IF arg.kind = "url" THEN arg.hostname ELSE DefaultHost
ParsedPath(arg) == IF arg.kind = "url" THEN arg.pathname ELSE DefaultPath
ParsedPort(arg) ==
    IF arg.kind = "url" /\ arg.port # <<>> THEN arg.port[1] ELSE DefaultPort

\* resolve(p): the port asked for, not the one bound
FinalPortRequested(addrPort, p) == p

\* resolve(typeof addr === 'object' && addr ? addr.port : p)
FinalPortOf(addrPort, p) == addrPort

\* the callback rebuilt with the port asked for
FinalCallbackPreferred(h, port, path) == Uri(h, <<preferredPort>>, path)

\* const finalCallback = `http://${host}:${finalPort}${pathName}`
FinalCallback(h, port, path) == Uri(h, <<port>>, path)

\* new OAuth2Client(client_id, client_secret, redirectUri): no credentials yet
NewClient(redirectUri) == [redirectUri |-> redirectUri, credentials |-> "none"]

\* oauth2Client.generateAuthUrl({...}): carries the client's redirect URI
GenerateAuthUrl(client) ==
    [redirect_uri |-> client.redirectUri, access_type |-> "offline"]
NoAuthUrl == [redirect_uri |-> NoUri, access_type |-> ""]

\* req.url as a sequence of tokens: the path, then "?" k v ("&" k v)*
ReqPaths ==
    { <<"/", "oauth2callback">>, <<"/", "cb">>, <<"/", "cb", "2">>,
      <<"/", "favicon.ico">> }
ReqQueries ==
    { <<>>, <<"?", "code", "c1">>, <<"?", "code", "c2">>,
      <<"?", "error", "access_denied">>,
      <<"?", "error", "access_denied", "&", "code", "c1">> }
Requests == {path \o q : path \in ReqPaths, q \in ReqQueries}

\* String.prototype.startsWith
StartsWith(str, prefix) ==
    /\ Len(prefix) <= Len(str)
    /\ SubSeq(str, 1, Len(prefix)) = prefix

\* if (!req.url?.startsWith(pathName)) return;
MatchesCallback(url, path) == StartsWith(url, path)

\* new URL(req.url, base).searchParams.get(name); "" stands for null
QueryStart(url) ==
    IF \E k \in 1..Len(url) : url[k] = "?"
    THEN CHOOSE k \in 1..Len(url) : url[k] = "?" /\ \A m \in 1..(k - 1) : url[m] # "?"
    ELSE Len(url) + 1
ParamKeys(url, name) ==
    {k \in (QueryStart(url) + 1)..(Len(url) - 1) :
        /\ (k - QueryStart(url)) % 3 = 1
        /\ url[k] = name}
SearchParam(url, name) ==
    IF ParamKeys(url, name) = {} THEN ""
    ELSE url[(CHOOSE k \in ParamKeys(url, name) :
                \A m \in ParamKeys(url, name) : k <= m) + 1]

\* one run of the 'request' handler
Handler(url, st, status, redirectUri) ==
    [url |-> url, st |-> st, status |-> status, redirectUri |-> redirectUri]

\* resolve() / reject(): only the first settles the promise
SettlePromise(p, outcome) == IF p = "pending" THEN outcome ELSE p
SettleReason(p, old, reason) == IF p = "pending" THEN reason ELSE old

\* the record JSON.stringify(tokens) leaves at CREDENTIALS_PATH
Stored(tokens) == [state |-> "ok", tokens |-> tokens]
NoFile == [state |-> "absent", tokens |-> ""]
\* a record JSON.parse rejects: damaged, or opened for writing and still empty
Corrupt == [state |-> "corrupt", tokens |-> ""]
Truncated == [state |-> "truncated", tokens |-> ""]
NotRead == [state |-> "unread", tokens |-> ""]
\* fs.existsSync(CREDENTIALS_PATH) and JSON.parse(fs.readFileSync(...)) succeed
Exists(file) == file.state # "absent"
Parses(file) == file.state = "ok"
\* the client before loadCredentials() has built one
NoClient == [redirectUri |-> NoUri, credentials |-> "none"]
\* oauth2Client.setCredentials(tokens)
SetCredentials(client, tokens) == [client EXCEPT !.credentials = tokens]
\* the token set oauth2Client.getToken(code) resolves with
TokensFor(code) == code

AuthIdle ==
    /\ argvCallback = NoArg
    /\ portOwner = [q \in Ports |-> "free"]
    /\ host = DefaultHost
    /\ pathName = DefaultPath
    /\ preferredPort = DefaultPort
    /\ finalPort = 0
    /\ server = [state |-> "created", port |-> 0]
    /\ oauth2Client = [redirectUri |-> RequestedUri(NoArg), credentials |-> "none"]
    /\ authUrl = NoAuthUrl
    /\ promise = "none"
    /\ rejection = ""
    /\ handlers = <<>>
    /\ credFile = NoFile
    /\ credFileBefore = NoFile
    /\ observed = NotRead
    /\ apc = "start"

\* ------------------------------------------------------------------- Init
InitBatch ==
    /\ items \in SeqsUpTo(ItemSet, MaxLen) \cup {ExampleItems}
    /\ batchSize \in 1..MaxBatchSize
    /\ i = 0
    /\ batch = <<>>
    /\ j = 0
    /\ successes = <<>>
    /\ failures = <<>>
    /\ calls = <<>>
    /\ bpc = "loop"
    /\ AuthIdle

\* -------------------------------------------------- processBatches actions
\* the chunk call is not awaited: the loop goes on to the next chunk at once
BatchCallNoAwait ==
    /\ bpc = "loop"
    /\ i < Len(items)
    /\ batch' = Slice(items, i, i + batchSize)
    /\ calls' = Invoke(calls, batch', "chunk")
    /\ i' = NextIndex(i, batchSize)
    /\ UNCHANGED <<items, batchSize, j, successes, failures, bpc>>
    /\ UNCHANGED authVars

\* for (let i = 0; i < items.length; ...) { batch = slice; await processFn(batch)
BatchCall ==
    /\ bpc = "loop"
    /\ i < Len(items)
    /\ batch' = Slice(items, i, i + batchSize)
    /\ calls' = Invoke(calls, batch', "chunk")
    /\ bpc' = "awaitBatch"
    /\ UNCHANGED <<items, batchSize, i, j, successes, failures>>
    /\ UNCHANGED authVars

\* loop condition false: return { successes, failures }
Return ==
    /\ bpc = "loop"
    /\ ~(i < Len(items))
    /\ bpc' = "done"
    /\ UNCHANGED <<items, batchSize, i, batch, j, successes, failures, calls>>
    /\ UNCHANGED authVars

\* processFn(batch) resolved: successes.push(...results); i += batchSize
BatchReturns ==
    /\ bpc = "awaitBatch"
    /\ calls' = Settle(calls, "ok")
    /\ successes' = PushResults(successes, OpResults(batch))
    /\ i' = NextIndex(i, batchSize)
    /\ bpc' = "loop"
    /\ UNCHANGED <<items, batchSize, batch, j, failures>>
    /\ UNCHANGED authVars

\* no isolation: a failed chunk fails every item in it
BatchThrowsNoRetry ==
    /\ bpc = "awaitBatch"
    /\ calls' = Settle(calls, "throw")
    /\ failures' = failures \o [k \in 1..Len(batch) |->
                                  [item |-> batch[k], error |-> Len(calls)]]
    /\ i' = NextIndex(i, batchSize)
    /\ bpc' = "loop"
    /\ UNCHANGED <<items, batchSize, batch, j, successes>>
    /\ UNCHANGED authVars

\* the retry loop starts at the second item of the failed chunk
BatchThrowsSkipFirst ==
    /\ bpc = "awaitBatch"
    /\ calls' = Settle(calls, "throw")
    /\ j' = 2
    /\ bpc' = "itemLoop"
    /\ UNCHANGED <<items, batchSize, i, batch, successes, failures>>
    /\ UNCHANGED authVars

\* processFn(batch) rejected: catch (error) { for (const item of batch) ...
BatchThrows ==
    /\ bpc = "awaitBatch"
    /\ calls' = Settle(calls, "throw")
    /\ j' = 1
    /\ bpc' = "itemLoop"
    /\ UNCHANGED <<items, batchSize, i, batch, successes, failures>>
    /\ UNCHANGED authVars

\* the retry passes the whole chunk again instead of [item]
ItemCallWholeBatch ==
    /\ bpc = "itemLoop"
    /\ j <= Len(batch)
    /\ calls' = Invoke(calls, batch, "item")
    /\ bpc' = "awaitItem"
    /\ UNCHANGED <<items, batchSize, i, batch, j, successes, failures>>
    /\ UNCHANGED authVars

\* for (const item of batch) { await processFn([item])
ItemCall ==
    /\ bpc = "itemLoop"
    /\ j <= Len(batch)
    /\ calls' = Invoke(calls, <<batch[j]>>, "item")
    /\ bpc' = "awaitItem"
    /\ UNCHANGED <<items, batchSize, i, batch, j, successes, failures>>
    /\ UNCHANGED authVars

\* for..of exhausted: leave the catch block; i += batchSize
ItemLoopEnd ==
    /\ bpc = "itemLoop"
    /\ j > Len(batch)
    /\ i' = NextIndex(i, batchSize)
    /\ bpc' = "loop"
    /\ UNCHANGED <<items, batchSize, batch, j, successes, failures, calls>>
    /\ UNCHANGED authVars

\* processFn([item]) resolved: successes.push(...result)
ItemReturns ==
    /\ bpc = "awaitItem"
    /\ calls' = Settle(calls, "ok")
    /\ successes' = PushResults(successes, OpResults(<<batch[j]>>))
    /\ j' = j + 1
    /\ bpc' = "itemLoop"
    /\ UNCHANGED <<items, batchSize, i, batch, failures>>
    /\ UNCHANGED authVars

\* no inner try/catch: the item's exception leaves processBatches
ItemThrowsRethrow ==
    /\ bpc = "awaitItem"
    /\ calls' = Settle(calls, "throw")
    /\ bpc' = "threw"
    /\ UNCHANGED <<items, batchSize, i, batch, j, successes, failures>>
    /\ UNCHANGED authVars

\* processFn([item]) rejected: failures.push({ item, error: itemError })
ItemThrows ==
    /\ bpc = "awaitItem"
    /\ calls' = Settle(calls, "throw")
    /\ failures' = PushFailure(failures, batch[j], Len(calls))
    /\ j' = j + 1
    /\ bpc' = "itemLoop"
    /\ UNCHANGED <<items, batchSize, i, batch, successes>>
    /\ UNCHANGED authVars

NextBatch ==
    \/ BatchCall
    \/ Return
    \/ BatchReturns
    \/ BatchThrows
    \/ ItemCall
    \/ ItemLoopEnd
    \/ ItemReturns
    \/ ItemThrows

SpecBatch == InitBatch /\ [][NextBatch]_vars


\* the same run where a step that is ready is taken: the loop goes on, and
\* every processFn call that was made returns or throws
SpecBatchLive == InitBatch /\ [][NextBatch]_vars /\ WF_vars(NextBatch)

\* ------------------------------------------------------ authenticate: Init
BatchIdle ==
    /\ items = <<>>
    /\ batchSize = 1
    /\ i = 0
    /\ batch = <<>>
    /\ j = 0
    /\ successes = <<>>
    /\ failures = <<>>
    /\ calls = <<>>
    /\ bpc = "loop"

\* main() in auth mode, before loadCredentials(): the OAuth keys are in place,
\* CREDENTIALS_PATH is absent, holds a record, or holds text that does not parse
InitAuth ==
    /\ BatchIdle
    /\ argvCallback \in CallbackArgs
    /\ \E held \in SUBSET (InputPorts \cup {49152}) :
          portOwner = [q \in Ports |-> IF q \in held THEN "other" ELSE "free"]
    /\ credFile \in {NoFile, Stored("old"), Corrupt}
    /\ credFileBefore = credFile
    /\ observed = NotRead
    /\ oauth2Client = NoClient
    /\ host = DefaultHost
    /\ pathName = DefaultPath
    /\ preferredPort = DefaultPort
    /\ finalPort = 0
    /\ server = [state |-> "created", port |-> 0]
    /\ authUrl = NoAuthUrl
    /\ promise = "none"
    /\ rejection = ""
    /\ handlers = <<>>
    /\ apc = "load"

\* --------------------------------------------------- authenticate: actions
\* loadCredentials(): the client is built with the requested callback and, when
\* CREDENTIALS_PATH exists, given the record it holds
LoadCredentials ==
    /\ apc = "load"
    /\ Exists(credFile) => Parses(credFile)
    /\ oauth2Client' =
          IF Exists(credFile)
          THEN SetCredentials(NewClient(RequestedUri(argvCallback)), credFile.tokens)
          ELSE NewClient(RequestedUri(argvCallback))
    /\ apc' = "start"
    /\ UNCHANGED <<argvCallback, portOwner, host, pathName, preferredPort,
                   finalPort, server, authUrl, promise, rejection, handlers,
                   credFile, observed, credFileBefore>>
    /\ UNCHANGED batchVars

\* loadCredentials(): JSON.parse throws on the record; catch { process.exit(1) }
LoadCredentialsFails ==
    /\ apc = "load"
    /\ Exists(credFile)
    /\ ~Parses(credFile)
    /\ apc' = "exited"
    /\ UNCHANGED <<argvCallback, portOwner, host, pathName, preferredPort,
                   finalPort, server, oauth2Client, authUrl, promise, rejection,
                   handlers, credFile, observed, credFileBefore>>
    /\ UNCHANGED batchVars

\* lines 187-203 and the first tryListen(preferredPort)
ParseCallback ==
    /\ apc = "start"
    /\ host' = ParsedHost(argvCallback)
    /\ pathName' = ParsedPath(argvCallback)
    /\ preferredPort' = ParsedPort(argvCallback)
    /\ apc' = "tryPreferred"
    /\ UNCHANGED <<argvCallback, portOwner, finalPort, server, oauth2Client,
                   authUrl, promise, rejection, handlers, credFile, observed, credFileBefore>>
    /\ UNCHANGED batchVars

\* the port tryListen was last called with
TryPort == IF apc = "tryPreferred" THEN preferredPort ELSE 0

\* the ports server.listen(p) can end up bound to
Bindable(p) ==
    IF p = 0 THEN {q \in EphemeralPorts : portOwner[q] = "free"}
    ELSE {q \in {p} \cap Ports : portOwner[q] = "free"}

\* 'listening': resolve(server.address().port)
ListenOk ==
    /\ apc \in {"tryPreferred", "tryFallback"}
    /\ \E q \in Bindable(TryPort) :
          /\ server' = [state |-> "listening", port |-> q]
          /\ portOwner' = [portOwner EXCEPT ![q] = "server"]
          /\ finalPort' = FinalPortOf(q, TryPort)
    /\ apc' = "bound"
    /\ UNCHANGED <<argvCallback, host, pathName, preferredPort, oauth2Client,
                   authUrl, promise, rejection, handlers, credFile, observed, credFileBefore>>
    /\ UNCHANGED batchVars

\* 'error' with code EADDRINUSE: tryListen(0)
ListenInUse ==
    /\ apc \in {"tryPreferred", "tryFallback"}
    /\ Bindable(TryPort) = {}
    /\ apc' = "tryFallback"
    /\ UNCHANGED <<argvCallback, portOwner, host, pathName, preferredPort,
                   finalPort, server, oauth2Client, authUrl, promise, rejection,
                   handlers, credFile, observed, credFileBefore>>
    /\ UNCHANGED batchVars

\* 'error' with any other code: process.exit(1)
ListenFatal ==
    /\ apc \in {"tryPreferred", "tryFallback"}
    /\ apc' = "exited"
    /\ UNCHANGED <<argvCallback, portOwner, host, pathName, preferredPort,
                   finalPort, server, oauth2Client, authUrl, promise, rejection,
                   handlers, credFile, observed, credFileBefore>>
    /\ UNCHANGED batchVars

\* lines 223-246: finalCallback, the new client, the authorization URL shown to
\* the user, and server.on('request', ...)
Present ==
    /\ apc = "bound"
    /\ oauth2Client' = NewClient(FinalCallback(host, finalPort, pathName))
    /\ authUrl' = GenerateAuthUrl(oauth2Client')
    /\ promise' = "pending"
    /\ apc' = "awaiting"
    /\ UNCHANGED <<argvCallback, portOwner, host, pathName, preferredPort,
                   finalPort, server, rejection, handlers, credFile, observed, credFileBefore>>
    /\ UNCHANGED batchVars

\* a request can be served: the listener accepts, the handler is registered and
\* main() has not been resumed by a settled promise
Serving ==
    /\ apc = "awaiting"
    /\ promise = "pending"
    /\ server.state = "listening"

\* the handler has just rejected with 'No code provided' while the HTTP parser
\* is still going through one socket read: main().catch runs only when that
\* run returns, so a request pipelined behind it is still given to the handler
SameRead ==
    /\ apc = "awaiting"
    /\ promise = "rejected"
    /\ rejection = "No code provided"
    /\ server.state = "listening"

\* the 'request' handler runs for whatever the listener delivers while the
\* process is alive: it keeps no record of having settled
Accepting == Serving \/ SameRead

\* a request the handler returns from at once: no response, nothing settled
RequestIgnored ==
    /\ Accepting
    /\ Len(handlers) < MaxRequests
    /\ \E url \in Requests :
          /\ ~MatchesCallback(url, pathName)
          /\ handlers' = Append(handlers, Handler(url, "ignored", 0, NoUri))
    /\ UNCHANGED <<argvCallback, portOwner, host, pathName, preferredPort,
                   finalPort, server, oauth2Client, authUrl, promise, rejection,
                   credFile, apc, observed, credFileBefore>>
    /\ UNCHANGED batchVars

\* if (!code) { 400 'No code provided'; reject(new Error('No code provided')) }
RequestNoCode ==
    /\ Accepting
    /\ Len(handlers) < MaxRequests
    /\ \E url \in Requests :
          /\ MatchesCallback(url, pathName)
          /\ SearchParam(url, "code") = ""
          /\ handlers' = Append(handlers, Handler(url, "done", 400, NoUri))
    /\ promise' = SettlePromise(promise, "rejected")
    /\ rejection' = SettleReason(promise, rejection, "No code provided")
    /\ UNCHANGED <<argvCallback, portOwner, host, pathName, preferredPort,
                   finalPort, server, oauth2Client, authUrl, credFile, apc, observed, credFileBefore>>
    /\ UNCHANGED batchVars

\* await oauth2Client.getToken(code): the exchange goes out with the client's
\* redirect URI
RequestWithCode ==
    /\ Accepting
    /\ Len(handlers) < MaxRequests
    /\ \E url \in Requests :
          /\ MatchesCallback(url, pathName)
          /\ SearchParam(url, "code") # ""
          /\ handlers' = Append(handlers,
                Handler(url, "exchanging", 0, oauth2Client.redirectUri))
    /\ UNCHANGED <<argvCallback, portOwner, host, pathName, preferredPort,
                   finalPort, server, oauth2Client, authUrl, promise, rejection,
                   credFile, apc, observed, credFileBefore>>
    /\ UNCHANGED batchVars

\* server.close(): the listening socket is released
Closed(srv) == [srv EXCEPT !.state = "closed"]
Released(owner, srv) ==
    [q \in Ports |-> IF owner[q] = "server" /\ q = srv.port THEN "free" ELSE owner[q]]

\* the handler whose writeFileSync / response is under way
Current == CHOOSE h \in 1..Len(handlers) : handlers[h].st \in {"writing", "written"}
Code(h) == SearchParam(handlers[h].url, "code")

\* getToken resolved: setCredentials(tokens); writeFileSync opens
\* CREDENTIALS_PATH for writing, which creates or empties it
TokenGranted ==
    /\ Serving
    /\ \E h \in 1..Len(handlers) :
          /\ handlers[h].st = "exchanging"
          /\ oauth2Client' = SetCredentials(oauth2Client, TokensFor(Code(h)))
          /\ handlers' = [handlers EXCEPT ![h].st = "writing"]
    /\ credFile' = Truncated
    /\ apc' = "writing"
    /\ UNCHANGED <<argvCallback, portOwner, host, pathName, preferredPort,
                   finalPort, server, authUrl, promise, rejection, observed, credFileBefore>>
    /\ UNCHANGED batchVars

\* getToken resolved but writeFileSync could not open the file: it is as it
\* was; catch { 500; reject(error) }
TokenGrantedWriteFails ==
    /\ Serving
    /\ \E h \in 1..Len(handlers) :
          /\ handlers[h].st = "exchanging"
          /\ oauth2Client' = SetCredentials(oauth2Client, TokensFor(Code(h)))
          /\ handlers' = [handlers EXCEPT ![h].st = "writeFailed", ![h].status = 500]
    /\ promise' = SettlePromise(promise, "rejected")
    /\ rejection' = SettleReason(promise, rejection, "write failed")
    /\ UNCHANGED <<argvCallback, portOwner, host, pathName, preferredPort,
                   finalPort, server, authUrl, credFile, observed, apc, credFileBefore>>
    /\ UNCHANGED batchVars

\* the listener is closed before the response is written
WriteFileDoneThenClose ==
    /\ apc = "writing"
    /\ credFile' = Stored(TokensFor(Code(Current)))
    /\ handlers' = [handlers EXCEPT ![Current].st = "written"]
    /\ apc' = "close"
    /\ UNCHANGED <<argvCallback, portOwner, host, pathName, preferredPort,
                   finalPort, server, oauth2Client, authUrl, promise, rejection,
                   observed, credFileBefore>>
    /\ UNCHANGED batchVars

\* writeFileSync wrote JSON.stringify(tokens) and returned
WriteFileDone ==
    /\ apc = "writing"
    /\ credFile' = Stored(TokensFor(Code(Current)))
    /\ handlers' = [handlers EXCEPT ![Current].st = "written"]
    /\ apc' = "respond"
    /\ UNCHANGED <<argvCallback, portOwner, host, pathName, preferredPort,
                   finalPort, server, oauth2Client, authUrl, promise, rejection,
                   observed, credFileBefore>>
    /\ UNCHANGED batchVars

\* the write's exception is swallowed and the handler carries on
WriteFileFailsIgnored ==
    /\ apc = "writing"
    /\ handlers' = [handlers EXCEPT ![Current].st = "written"]
    /\ apc' = "respond"
    /\ UNCHANGED <<argvCallback, portOwner, host, pathName, preferredPort,
                   finalPort, server, oauth2Client, authUrl, promise, rejection,
                   credFile, observed, credFileBefore>>
    /\ UNCHANGED batchVars

\* the write failed after the file was emptied: catch { 500; reject(error) }
WriteFileFails ==
    /\ apc = "writing"
    /\ handlers' = [handlers EXCEPT ![Current].st = "writeFailed",
                                     ![Current].status = 500]
    /\ promise' = SettlePromise(promise, "rejected")
    /\ rejection' = SettleReason(promise, rejection, "write failed")
    /\ apc' = "awaiting"
    /\ UNCHANGED <<argvCallback, portOwner, host, pathName, preferredPort,
                   finalPort, server, oauth2Client, authUrl, credFile, observed, credFileBefore>>
    /\ UNCHANGED batchVars

\* res.writeHead(200); res.end('Authentication successful! ...')
ResEnd ==
    /\ apc = "respond"
    /\ handlers' = [handlers EXCEPT ![Current].st = "done", ![Current].status = 200]
    /\ apc' = "close"
    /\ UNCHANGED <<argvCallback, portOwner, host, pathName, preferredPort,
                   finalPort, server, oauth2Client, authUrl, promise, rejection,
                   credFile, observed, credFileBefore>>
    /\ UNCHANGED batchVars

\* server.close()
ServerClose ==
    /\ apc = "close"
    /\ server' = Closed(server)
    /\ portOwner' = Released(portOwner, server)
    /\ apc' = "resolve"
    /\ UNCHANGED <<argvCallback, host, pathName, preferredPort, finalPort,
                   oauth2Client, authUrl, promise, rejection, handlers, credFile,
                   observed, credFileBefore>>
    /\ UNCHANGED batchVars

\* resolve()
Resolve ==
    /\ apc = "resolve"
    /\ promise' = SettlePromise(promise, "resolved")
    /\ apc' = "awaiting"
    /\ UNCHANGED <<argvCallback, portOwner, host, pathName, preferredPort,
                   finalPort, server, oauth2Client, authUrl, rejection, handlers,
                   credFile, observed, credFileBefore>>
    /\ UNCHANGED batchVars

\* the catch block answers 500 but does not reject
TokenRejectedNoReject ==
    /\ Serving
    /\ \E h \in 1..Len(handlers) :
          /\ handlers[h].st = "exchanging"
          /\ handlers' = [handlers EXCEPT ![h].st = "rejected", ![h].status = 500]
    /\ UNCHANGED <<argvCallback, portOwner, host, pathName, preferredPort,
                   finalPort, server, oauth2Client, authUrl, promise, rejection,
                   credFile, observed, apc, credFileBefore>>
    /\ UNCHANGED batchVars

\* the catch block also removes the stored record
TokenRejectedClearsFile ==
    /\ Serving
    /\ \E h \in 1..Len(handlers) :
          /\ handlers[h].st = "exchanging"
          /\ handlers' = [handlers EXCEPT ![h].st = "rejected", ![h].status = 500]
    /\ credFile' = NoFile
    /\ promise' = SettlePromise(promise, "rejected")
    /\ rejection' = SettleReason(promise, rejection, "exchange rejected")
    /\ UNCHANGED <<argvCallback, portOwner, host, pathName, preferredPort,
                   finalPort, server, oauth2Client, authUrl, observed, apc,
                   credFileBefore>>
    /\ UNCHANGED batchVars

\* getToken rejected: catch { 500 'Authentication failed'; reject(error) }
TokenRejected ==
    /\ Serving
    /\ \E h \in 1..Len(handlers) :
          /\ handlers[h].st = "exchanging"
          /\ handlers' = [handlers EXCEPT ![h].st = "rejected", ![h].status = 500]
    /\ promise' = SettlePromise(promise, "rejected")
    /\ rejection' = SettleReason(promise, rejection, "exchange rejected")
    /\ UNCHANGED <<argvCallback, portOwner, host, pathName, preferredPort,
                   finalPort, server, oauth2Client, authUrl, credFile, observed,
                   apc, credFileBefore>>
    /\ UNCHANGED batchVars

\* main(): process.exit(0) after authenticate() resolved, process.exit(1) from
\* main().catch after it rejected; the process's sockets go with it
ProcessExit ==
    /\ apc = "awaiting"
    /\ promise \in {"resolved", "rejected"}
    /\ apc' = "exited"
    /\ server' = Closed(server)
    /\ portOwner' = Released(portOwner, server)
    /\ UNCHANGED <<argvCallback, host, pathName, preferredPort, finalPort,
                   oauth2Client, authUrl, promise, rejection, handlers, credFile,
                   observed, credFileBefore>>
    /\ UNCHANGED batchVars

\* another instance of the program runs loadCredentials() and reads
\* CREDENTIALS_PATH as it is at that moment
OtherProcessLoad ==
    /\ observed = NotRead
    /\ observed' = credFile
    /\ UNCHANGED <<argvCallback, portOwner, host, pathName, preferredPort,
                   finalPort, server, oauth2Client, authUrl, promise, rejection,
                   handlers, credFile, apc, credFileBefore>>
    /\ UNCHANGED batchVars

\* the steps the program and the token endpoint take by themselves
ProgramStep ==
    \/ LoadCredentials
    \/ LoadCredentialsFails
    \/ ParseCallback
    \/ ListenOk
    \/ ListenInUse
    \/ Present
    \/ TokenGranted
    \/ TokenRejected
    \/ WriteFileDone
    \/ ResEnd
    \/ ServerClose
    \/ Resolve
    \/ ProcessExit

NextAuth ==
    \/ LoadCredentials
    \/ LoadCredentialsFails
    \/ ParseCallback
    \/ ListenOk
    \/ ListenInUse
    \/ ListenFatal
    \/ Present
    \/ RequestIgnored
    \/ RequestNoCode
    \/ RequestWithCode
    \/ TokenGranted
    \/ TokenGrantedWriteFails
    \/ WriteFileDone
    \/ WriteFileFails
    \/ ResEnd
    \/ ServerClose
    \/ Resolve
    \/ TokenRejected
    \/ ProcessExit

SpecAuth == InitAuth /\ [][NextAuth]_vars

\* the same run with a second instance of the program reading the record
NextShared == NextAuth \/ OtherProcessLoad
SpecShared == InitAuth /\ [][NextShared]_vars

\* the same run under the scheduling Node gives it: a step that is ready is
\* taken and a token request is answered; a browser request may never come
SpecAuthLive == InitAuth /\ [][NextAuth]_vars /\ WF_vars(ProgramStep)

\* ================================================== claims: processBatches
AllItems == ItemSet \cup {ExampleItems[k] : k \in 1..Len(ExampleItems)}
Occurs(s, x) == Cardinality({k \in 1..Len(s) : s[k] = x})
FailedItems == [k \in 1..Len(failures) |-> failures[k].item]
Settled == {k \in 1..Len(calls) : calls[k].out # "pending"}
ChunkThrew == \E k \in Settled : calls[k].kind = "chunk" /\ calls[k].out = "throw"
Has(b, x) == \E k \in 1..Len(b) : b[k] = x

\* C1: when processBatches returns, successes + failures count up to the input
\* length and every input item is in exactly one of the two sequences (counted
\* with multiplicity), however many chunk-level calls threw.
C1_Partition ==
    bpc = "done" =>
        /\ Len(successes) + Len(failures) = Len(items)
        /\ \A x \in AllItems :
              Occurs(items, x) = Occurs(successes, ResultOf(x)) + Occurs(FailedItems, x)

C1_Witness ==
    /\ bpc = "done"
    /\ ChunkThrew
    /\ Len(successes) > 0
    /\ Len(failures) > 0
    /\ batchSize > 1

\* the operation throws exactly on the calls whose chunk contains x
ThrowsExactlyOn(x) ==
    \A k \in Settled : (calls[k].out = "throw") <=> Has(calls[k].batch, x)

Without(s, x) == SelectSeq(s, LAMBDA y : y # x)

\* C2: if the operation throws exactly when its chunk contains one item x, and x
\* occurs once in the input, the returned failures hold x and only x and every
\* other input item is among the successes, for every chunk size.
C2_OnlyFaultyItemFails ==
    \A x \in AllItems :
        (bpc = "done" /\ Occurs(items, x) = 1 /\ ThrowsExactlyOn(x)) =>
            /\ FailedItems = <<x>>
            /\ successes = OpResults(Without(items, x))

C2_Witness ==
    \E x \in AllItems :
        /\ bpc = "done"
        /\ Occurs(items, x) = 1
        /\ ThrowsExactlyOn(x)
        /\ Len(items) = 3
        /\ batchSize = 2
        /\ items[2] = x

\* the operation throws exactly on the calls given more than one item
ThrowsOnMulti ==
    \A k \in Settled : (calls[k].out = "throw") <=> Len(calls[k].batch) > 1

\* C3: if the operation succeeds on single items and throws on every larger
\* chunk, batchSize = 1 and batchSize = N both return every item as a success
\* and no failure; with batchSize = N > 1 that is reached through the chunk's
\* failure and N single-item calls.
C3_IsolationRecoversAll ==
    (bpc = "done" /\ ThrowsOnMulti /\ (batchSize = 1 \/ batchSize = Len(items))) =>
        /\ successes = OpResults(items)
        /\ failures = <<>>
        /\ (batchSize = Len(items) /\ Len(items) > 1) =>
              /\ Len(calls) = Len(items) + 1
              /\ calls[1].out = "throw"
              /\ \A k \in 1..Len(items) :
                    calls[k + 1] = [batch |-> <<items[k]>>, kind |-> "item", out |-> "ok"]

C3_Witness ==
    /\ bpc = "done"
    /\ ThrowsOnMulti
    /\ batchSize = Len(items)
    /\ Len(items) = 3
    /\ ChunkThrew

\* the operation of the example: throws on the whole chunk [c, d] only
ExampleOp ==
    \A k \in Settled : (calls[k].out = "throw") <=> calls[k].batch = <<"c", "d">>
ExampleRun == items = ExampleItems /\ batchSize = 2 /\ bpc = "done" /\ ExampleOp

\* C4 as stated: the example returns successes = [a, b, c, d] and no failures.
C4_AsStated ==
    ExampleRun =>
        /\ successes = OpResults(<<"a", "b", "c", "d">>)
        /\ failures = <<>>

\* C4 (amended): the example returns successes = [a, b, c, d, e], the item e of
\* the last chunk included, and no failures.
C4_Example ==
    ExampleRun =>
        /\ successes = OpResults(<<"a", "b", "c", "d", "e">>)
        /\ failures = <<>>

C4_Witness == ExampleRun /\ ChunkThrew /\ Len(calls) = 5

ItemThrowCalls == {k \in Settled : calls[k].kind = "item" /\ calls[k].out = "throw"}

\* C5: processBatches never throws: until it has returned it can always take a
\* step, no exception reaches its caller, and the failures are exactly the
\* item-level exceptions, each recorded with its item, in the order thrown; a
\* chunk-level exception is never among them.
C5_NeverFailsAsAWhole ==
    /\ bpc # "threw"
    /\ bpc # "done" => ENABLED NextBatch
    /\ Len(failures) = Cardinality(ItemThrowCalls)
    /\ \A f \in 1..Len(failures) :
          /\ failures[f].error \in ItemThrowCalls
          /\ calls[failures[f].error].batch = <<failures[f].item>>
          /\ \A g \in 1..Len(failures) : f < g => failures[f].error < failures[g].error

C5_Witness ==
    /\ bpc = "done"
    /\ ChunkThrew
    /\ Len(failures) = 2
    /\ Len(successes) > 0

\* ==================================================== claims: authenticate
Exchanges == {h \in 1..Len(handlers) : handlers[h].redirectUri # NoUri}
PreferredHeld == preferredPort \in Ports /\ portOwner[preferredPort] = "other"
UrlPath(url) == SubSeq(url, 1, QueryStart(url) - 1)

\* C6: the redirect URI in the authorization URL shown to the user and the one
\* each token exchange is sent with are the same value, and its port is the
\* port the listener bound: never the preferred port after a fallback.
C6_RedirectUriIsBoundPort ==
    authUrl # NoAuthUrl =>
        /\ authUrl.redirect_uri = Uri(host, <<server.port>>, pathName)
        /\ \A h \in Exchanges : handlers[h].redirectUri = authUrl.redirect_uri
        /\ PreferredHeld => authUrl.redirect_uri.port # <<preferredPort>>

C6_Witness ==
    /\ apc = "awaiting"
    /\ PreferredHeld
    /\ server.port \in EphemeralPorts
    /\ Exchanges # {}

\* C7: with the preferred port held by another listener the bind falls back to
\* an OS-assigned port; finalPort is the port actually bound, it differs from
\* the preferred port, and the preferred port stays with its holder.
C7_FallbackReportsBoundPort ==
    PreferredHeld /\ server.state = "listening" =>
        /\ finalPort = server.port
        /\ finalPort \in EphemeralPorts
        /\ portOwner[finalPort] = "server"
        /\ finalPort # preferredPort
        /\ portOwner[preferredPort] = "other"

C7_Witness ==
    /\ PreferredHeld
    /\ server.state = "listening"
    /\ apc = "bound"
    /\ preferredPort = 8080

\* C8 as stated: a request to any path other than the callback path is left
\* alone: it neither settles the flow nor starts a token exchange.
C8_OtherPathsIgnored ==
    \A h \in 1..Len(handlers) :
        UrlPath(handlers[h].url) # pathName => handlers[h].st = "ignored"

\* C9 as stated: a callback-path request carrying an error parameter starts no
\* token exchange and fails the flow with a reason other than NoCodeProvided.
C9_ErrorParamIsRemoteDenied ==
    \A h \in 1..Len(handlers) :
        (/\ MatchesCallback(handlers[h].url, pathName)
         /\ SearchParam(handlers[h].url, "error") # "") =>
            /\ h \notin Exchanges
            /\ promise = "rejected"
            /\ rejection # "No code provided"

\* C10 as stated: once the flow is Resolved or Failed, the request that settled
\* it has its terminal response and the listener is closed.
C10_ListenerClosedOnceSettled ==
    promise \in {"resolved", "rejected"} =>
        /\ \E h \in 1..Len(handlers) : handlers[h].status \in {200, 400, 500}
        /\ server.state = "closed"


\* C11 as stated: one authorization flow captures one code: at most one token
\* exchange is started and at most one credential write happens, whatever
\* requests arrive on the callback path.
C11_SingleExchange ==
    /\ Cardinality(Exchanges) <= 1
    /\ Cardinality({h \in 1..Len(handlers) : handlers[h].status = 200}) <= 1


CallbackRequests == {h \in 1..Len(handlers) : handlers[h].st # "ignored"}

\* C12 as stated: if no request ever arrives on the callback path, a timeout
\* cancels the flow: authenticate reaches a terminal state and the process's
\* listener is closed.
C12_AbandonedFlowTimesOut ==
    <>(CallbackRequests # {} \/ (apc = "exited" /\ server.state # "listening"))

\* C13 as stated: with CREDENTIALS_PATH absent or unparsable, starting in auth
\* mode goes on to authenticate and does not end the process.
C13_CredentialFileNeverFatal ==
    [][(apc = "load" /\ ~Parses(credFile)) => apc' # "exited"]_vars

\* C14 as stated: a reader of the credential record finds the complete previous
\* record or the complete new one, never an emptied or partly written file.
C14_SaveIsAtomic == observed.state # "truncated"


\* the state of the authorization flow, read off the program's state
InFlight == {h \in 1..Len(handlers) : handlers[h].st \in {"exchanging", "writing", "written"}}
FlowState ==
    IF promise = "resolved" THEN "Resolved"
    ELSE IF promise = "rejected" \/ apc = "exited" THEN "Failed"
    ELSE IF apc \in {"load", "start", "tryPreferred", "tryFallback"} THEN "Idle"
    ELSE IF apc = "bound" THEN "ListenerBound"
    ELSE IF InFlight # {} \/ apc \in {"close", "resolve"} THEN "Exchanging"
    ELSE "AwaitingRedirect"

FlowMoves ==
    { <<"Idle", "ListenerBound">>, <<"Idle", "Failed">>,
      <<"ListenerBound", "AwaitingRedirect">>,
      <<"AwaitingRedirect", "Exchanging">>, <<"AwaitingRedirect", "Failed">>,
      <<"Exchanging", "Resolved">>, <<"Exchanging", "Failed">> }

\* C15: the flow only moves forward along Idle -> ListenerBound ->
\* AwaitingRedirect -> Exchanging -> Resolved | Failed (any state may fail):
\* the authorization URL exists only once the listener is bound, an exchange is
\* started only for a request that carried a code, and nothing leaves Resolved
\* or Failed.
C15_FlowOrder ==
    [][/\ FlowState' # FlowState => <<FlowState, FlowState'>> \in FlowMoves
       /\ authUrl' # NoAuthUrl => server'.state # "created"
       /\ \A h \in 1..Len(handlers') :
             handlers'[h].redirectUri # NoUri => SearchParam(handlers'[h].url, "code") # ""
      ]_vars

C15_Witness ==
    /\ FlowState = "Resolved"
    /\ apc = "exited"
    /\ Len(handlers) = 2
    /\ \E h \in 1..Len(handlers) : handlers[h].st = "ignored"

ExchangeRejected == {h \in 1..Len(handlers) : handlers[h].st = "rejected"}

\* C16: when the token exchange for a received code is rejected, authenticate
\* rejects with that error and CREDENTIALS_PATH is as it was when the program
\* started.
C16_RejectedExchangeFails ==
    ExchangeRejected # {} =>
        /\ promise = "rejected"
        /\ rejection = "exchange rejected"
        /\ credFile = credFileBefore

C16_Witness ==
    /\ ExchangeRejected # {}
    /\ credFileBefore = Stored("old")
    /\ apc = "exited"

Answered200 == {h \in 1..Len(handlers) : handlers[h].status = 200}

\* C17: on the success path res.end is issued before server.close() and
\* server.close() before resolve(): a closed listener of the running process
\* has a request answered 200, and a resolved promise has both.
C17_EndCloseResolveOrder ==
    /\ (server.state = "closed" /\ apc # "exited") => Answered200 # {}
    /\ promise = "resolved" => (Answered200 # {} /\ server.state = "closed")
    /\ apc = "resolve" => (Answered200 # {} /\ server.state = "closed")

C17_Witness ==
    /\ apc = "resolve"
    /\ promise = "pending"
    /\ server.state = "closed"

WriteFailed == {h \in 1..Len(handlers) : handlers[h].st = "writeFailed"}
Wrote == {h \in 1..Len(handlers) :
            handlers[h].st \in {"writing", "written", "writeFailed"} \/ handlers[h].status = 200}

\* C20: a resolved authenticate has stored exactly the token set its exchange
\* returned; the record changes only after an exchange succeeded, and a failed
\* write rejects the flow.
C20_ResolvedMeansStored ==
    /\ promise = "resolved" =>
          \E h \in Answered200 :
              /\ credFile = Stored(TokensFor(Code(h)))
              /\ handlers[h].redirectUri # NoUri
    /\ credFile # credFileBefore => Wrote # {}
    /\ (WriteFailed # {} /\ apc # "writing") => (promise = "rejected" /\ Answered200 = {})

C20_Witness ==
    /\ promise = "resolved"
    /\ credFileBefore = Stored("old")
    /\ credFile = Stored("c2")
    /\ Len(handlers) = 2


\* ========================================== claims: processBatches, calls
ChunkCalls == {k \in 1..Len(calls) : calls[k].kind = "chunk"}
\* the chunk call that call k belongs to, and how many chunk calls came by then
ChunkOf(k) == CHOOSE c \in ChunkCalls : c <= k /\ \A d \in ChunkCalls : d <= k => d <= c
ChunkNo(k) == Cardinality({c \in ChunkCalls : c <= k})
\* the single-item calls that follow chunk call c before the next chunk call
Retries(c) == {k \in 1..Len(calls) : calls[k].kind = "item" /\ ChunkOf(k) = c}
RECURSIVE ChunkedItems(_)
ChunkedItems(k) ==
    IF k = 0 THEN <<>>
    ELSE ChunkedItems(k - 1) \o (IF calls[k].kind = "chunk" THEN calls[k].batch ELSE <<>>)

\* C18: by the time processBatches returns, the chunk calls together passed
\* every input item once; a chunk whose call succeeded has no further call, and
\* a chunk whose call threw (a single-item chunk included) has exactly one more
\* call per item, for that item alone: once or twice per item, never more.
C18_RetryOnlyFailedChunks ==
    bpc = "done" =>
        /\ ChunkedItems(Len(calls)) = items
        /\ \A c \in ChunkCalls :
              /\ calls[c].out = "ok" => Retries(c) = {}
              /\ calls[c].out = "throw" =>
                    /\ Retries(c) = (c + 1)..(c + Len(calls[c].batch))
                    /\ \A k \in Retries(c) : calls[k].batch = <<calls[c].batch[k - c]>>

C18_Witness ==
    /\ bpc = "done"
    /\ batchSize = 1
    /\ Len(items) = 2
    /\ calls[1].out = "throw"
    /\ calls[2].batch = calls[1].batch
    /\ calls[3].out = "ok"
    /\ Len(calls) = 3

PendingCalls == {k \in 1..Len(calls) : calls[k].out = "pending"}

\* C19: at most one processFn call is in flight, and it is the latest one;
\* chunk calls are made in input order, each after the previous chunk's call
\* and, if that threw, all its single-item calls; the single-item calls of a
\* failed chunk follow it one by one in the chunk's order.
C19_OneCallAtATime ==
    /\ Cardinality(PendingCalls) <= 1
    /\ PendingCalls \subseteq {Len(calls)}
    /\ \A k \in 1..Len(calls) :
          IF calls[k].kind = "chunk"
          THEN /\ calls[k].batch =
                     Slice(items, (ChunkNo(k) - 1) * batchSize, ChunkNo(k) * batchSize)
               /\ k > 1 =>
                     k - 1 - ChunkOf(k - 1) =
                        (IF calls[ChunkOf(k - 1)].out = "throw"
                         THEN Len(calls[ChunkOf(k - 1)].batch) ELSE 0)
          ELSE /\ calls[ChunkOf(k)].out = "throw"
               /\ k - ChunkOf(k) <= Len(calls[ChunkOf(k)].batch)
               /\ calls[k].batch = <<calls[ChunkOf(k)].batch[k - ChunkOf(k)]>>

C19_Witness ==
    /\ bpc = "awaitItem"
    /\ j = 2
    /\ ChunkNo(Len(calls)) = 2
    /\ calls[1].out = "throw"
    /\ PendingCalls = {Len(calls)}


FlowFailed ==
    /\ promise = "rejected"
    /\ rejection \in {"No code provided", "exchange rejected"}

\* C21 as stated: once authenticate has rejected for a callback-path request
\* without a code or for a rejected exchange, no step starts a further token
\* exchange, and CREDENTIALS_PATH and the client's credentials stay as they are.
C21_NothingAfterFailure ==
    [][FlowFailed =>
          /\ Exchanges' = Exchanges
          /\ credFile' = credFile
          /\ oauth2Client' = oauth2Client
      ]_vars


\* ===================================== claims: processBatches, termination
CeilDiv(n, c) == (n + c - 1) \div c
MinCalls == CeilDiv(Len(items), batchSize)
MaxCalls == CeilDiv(Len(items), batchSize) + Len(items)

\* C22: with every processFn call returning or throwing, processBatches
\* returns; it never makes more than ceil(n/c) + n calls and has made at least
\* ceil(n/c) when it returns; for an empty input it makes no call and returns
\* two empty sequences.
C22_TerminatesWithinBound ==
    /\ <>(bpc = "done")
    /\ [](Len(calls) <= MaxCalls)
    /\ [](bpc = "done" =>
            /\ Len(calls) >= MinCalls
            /\ items = <<>> => calls = <<>> /\ successes = <<>> /\ failures = <<>>)

C22_Witness ==
    /\ bpc = "done"
    /\ Len(items) = 4
    /\ batchSize = 3
    /\ Len(calls) = 6
    /\ Len(failures) = 1

====
